---- MODULE Spec2Model ----
(***************************************************************************)
(* A model of sftp.py: the argument tokenizer (FTPClient._parse_args), the *)
(* completion cache (CommandCompleter.get_completions with                 *)
(* FTPClient.get_words as its word source) and the interactive session     *)
(* loop (FTPClient.start_interactive with ls, download_file and            *)
(* _execute_safely).                                                       *)
(*                                                                         *)
(* Spec is the session loop on a fixed directory; SpecTok, SpecComp,       *)
(* SpecWords, SpecLs and SpecGet are _parse_args, one CommandCompleter,    *)
(* get_words, ls and the get/download lines on their own, each on all of   *)
(* its bounded inputs; SpecShell is the loop with the completer of each    *)
(* prompt.                                                                 *)
(*                                                                         *)
(* A Python str is a sequence of one-character strings: 'cd a' is          *)
(* <<"c", "d", " ", "a">>.                                                 *)
(***************************************************************************)
EXTENDS Integers, Sequences, FiniteSets, TLC

VARIABLES
    \* ---- FTPClient (session loop) ----
    closed,        \* self._closed
    pwd,           \* self._pwd
    cwd,           \* the remote session's working directory (what getcwd() returns)
    entries,       \* the remote directory's entries (what listdir_attr() returns)
    fname,         \* the local variable fname of start_interactive
    cmd,           \* the local cmd of the current iteration
    argc,          \* len(args) of the current iteration, -1 if _parse_args raised
    pc,            \* position of start_interactive
    out,           \* what the current iteration has printed
    calls,         \* the session/display operations the current iteration has performed
    closeCalls,    \* number of calls of self._client.close()
    progressLive,  \* the rich Progress display is started (inside `with progress`)
    xfer,          \* arguments of the download_file call in progress
    exc,           \* the exception that ended start_interactive, if any
    interrupted,   \* a KeyboardInterrupt has been raised inside the loop
    \* ---- _parse_args, character by character ----
    tokIn,         \* the argument `args`
    ps,            \* the locals parsed, arg, escaping, quote, index
    tokResult,     \* the outcome: returned list or raised ValueError
    \* ---- CommandCompleter ----
    last_word_count,  \* self._last_word_count
    word_cache,       \* self._word_cache
    docLine,          \* document.current_line of the last request
    completions,      \* the texts yielded by the last request
    genCalled,        \* the last request invoked word_gen
    genFailed,        \* ... and word_gen raised
    genCalls,         \* the session operations word_gen performed in the last request
    invCount,         \* token count of the line at the latest word_gen invocation
    retCount,         \* ... at the latest word_gen invocation that returned
    \* ---- what was typed, kept for comparison ----
    line,          \* the line read in the current iteration, split and tokenized
    ref            \* an earlier get line: its args, _pwd and download call

sessionVars == <<closed, pwd, cwd, entries, fname, cmd, argc, pc, out, calls,
                 closeCalls, progressLive, xfer, exc, interrupted>>
tokVars == <<tokIn, ps, tokResult>>
compVars == <<last_word_count, word_cache, docLine, completions, genCalled,
              genFailed, genCalls, invCount, retCount>>
obsVars == <<line, ref>>
vars == <<sessionVars, tokVars, compVars, obsVars>>

(***************************************************************************)
(* Bounds of the model.                                                    *)
(***************************************************************************)
\* longest argument string given to the tokenizer on its own
MaxLen == 5
\* most space-separated pieces after the command word of a prompt line
MaxPieces == 3
\* most space-separated words after the first word of a line being completed
MaxWords == 2
\* most entries of a remote directory that ls is run on
MaxEntries == 3
\* most spaces typed before the command word
MaxLead == 1

(***************************************************************************)
(* Python str helpers.                                                     *)
(***************************************************************************)
SP == " "
BS == "\\"
DQ == "\""
SQ == "'"

\* all strings over alphabet A of length at most n
StringsUpTo(A, n) == UNION { [1..k -> A] : k \in 0..n }

\* position of the first c in s, 0 if none
RECURSIVE IndexFrom(_, _, _)
IndexFrom(s, c, i) ==
    IF i > Len(s) THEN 0
    ELSE IF s[i] = c THEN i
    ELSE IndexFrom(s, c, i + 1)

Contains(s, c) == IndexFrom(s, c, 1) # 0

\* s.split(' '): the segments between single spaces, empty segments kept
RECURSIVE SplitSp(_)
SplitSp(s) ==
    LET i == IndexFrom(s, SP, 1) IN
    IF i = 0 THEN <<s>>
    ELSE <<SubSeq(s, 1, i - 1)>> \o SplitSp(SubSeq(s, i + 1, Len(s)))

\* sep.join(parts)
RECURSIVE Join(_, _)
Join(sep, parts) ==
    IF parts = <<>> THEN <<>>
    ELSE IF Len(parts) = 1 THEN parts[1]
    ELSE parts[1] \o sep \o Join(sep, Tail(parts))

(***************************************************************************)
(* FTPClient._parse_args                                                   *)
(***************************************************************************)
None == "None"

\* the locals before the loop
ParseInit ==
    [parsed |-> <<>>, arg |-> <<>>, escaping |-> FALSE, quote |-> None, index |-> 0]

\* the space branch without `if arg:`: an empty buffer is emitted too
ParseChar_EmitEmpty(st, char) ==
    LET s == [st EXCEPT !.index = st.index + 1] IN
    IF s.escaping THEN
        [s EXCEPT !.arg = s.arg \o <<char>>, !.escaping = FALSE]
    ELSE IF char = BS THEN
        [s EXCEPT !.escaping = TRUE]
    ELSE IF s.quote # None /\ char = s.quote THEN
        [s EXCEPT !.quote = None]
    ELSE IF s.quote = None /\ char \in {DQ, SQ} THEN
        [s EXCEPT !.quote = char]
    ELSE IF s.quote = None /\ char = SP THEN
        [s EXCEPT !.parsed = Append(s.parsed, s.arg), !.arg = <<>>]
    ELSE
        [s EXCEPT !.arg = s.arg \o <<char>>]

\* the space branch without `quote is None`: a space inside quotes splits
ParseChar_SplitInQuote(st, char) ==
    LET s == [st EXCEPT !.index = st.index + 1] IN
    IF s.escaping THEN
        [s EXCEPT !.arg = s.arg \o <<char>>, !.escaping = FALSE]
    ELSE IF char = BS THEN
        [s EXCEPT !.escaping = TRUE]
    ELSE IF s.quote # None /\ char = s.quote THEN
        [s EXCEPT !.quote = None]
    ELSE IF s.quote = None /\ char \in {DQ, SQ} THEN
        [s EXCEPT !.quote = char]
    ELSE IF char = SP THEN
        [s EXCEPT !.parsed = IF s.arg # <<>> THEN Append(s.parsed, s.arg) ELSE s.parsed,
                  !.arg = <<>>]
    ELSE
        [s EXCEPT !.arg = s.arg \o <<char>>]

\* one iteration of `for char in list(args)`
ParseChar(st, char) ==
    LET s == [st EXCEPT !.index = st.index + 1] IN
    IF s.escaping THEN
        [s EXCEPT !.arg = s.arg \o <<char>>, !.escaping = FALSE]
    ELSE IF char = BS THEN
        [s EXCEPT !.escaping = TRUE]
    ELSE IF s.quote # None /\ char = s.quote THEN
        [s EXCEPT !.quote = None]
    ELSE IF s.quote = None /\ char \in {DQ, SQ} THEN
        [s EXCEPT !.quote = char]
    ELSE IF s.quote = None /\ char = SP THEN
        [s EXCEPT !.parsed = IF s.arg # <<>> THEN Append(s.parsed, s.arg) ELSE s.parsed,
                  !.arg = <<>>]
    ELSE
        [s EXCEPT !.arg = s.arg \o <<char>>]

\* the two raises in the other order
ParseEnd_EscapeFirst(st) ==
    IF st.escaping THEN
        [status |-> "DanglingEscape", tokens |-> <<>>, index |-> st.index]
    ELSE IF st.quote # None THEN
        [status |-> "UnterminatedQuote", tokens |-> <<>>, index |-> st.index]
    ELSE
        [status |-> "ok",
         tokens |-> IF st.arg # <<>> THEN Append(st.parsed, st.arg) ELSE st.parsed,
         index |-> st.index]

\* the code after the loop: the two raises and the final append
ParseEnd(st) ==
    IF st.quote # None THEN
        [status |-> "UnterminatedQuote", tokens |-> <<>>, index |-> st.index]
    ELSE IF st.escaping THEN
        [status |-> "DanglingEscape", tokens |-> <<>>, index |-> st.index]
    ELSE
        [status |-> "ok",
         tokens |-> IF st.arg # <<>> THEN Append(st.parsed, st.arg) ELSE st.parsed,
         index |-> st.index]

RECURSIVE ParseScan(_, _)
ParseScan(st, args) ==
    IF args = <<>> THEN st
    ELSE ParseScan(ParseChar(st, Head(args)), Tail(args))

\* the whole function: status "ok" with the returned list, or the ValueError raised
parse_args(args) == ParseEnd(ParseScan(ParseInit, args))

Pending == [status |-> "pending", tokens |-> <<>>, index |-> 0]


(***************************************************************************)
(* The remote session (paramiko SFTPClient) as the loop sees it.           *)
(***************************************************************************)
\* an optional str: Python None or a str
NoStr == [none |-> TRUE, s |-> <<>>]
Some(s) == [none |-> FALSE, s |-> s]

\* `x or ''`
OrEmpty(x) == IF x.none \/ x.s = <<>> THEN <<>> ELSE x.s

\* the directories that exist on the server: chdir to any other path fails
RemoteDirs == { <<"/", "a">>, <<"/", "a", "/", "a">> }

\* a directory listing: b/  a  A/  c (a symlink)  'a B'
DefaultEntries ==
    << [filename |-> <<"b">>, st_mode |-> 16877],
       [filename |-> <<"a">>, st_mode |-> 33188],
       [filename |-> <<"A">>, st_mode |-> 16877],
       [filename |-> <<"c">>, st_mode |-> 41471],
       [filename |-> <<"a", " ", "B">>, st_mode |-> 33188] >>

\* stat.S_ISDIR / stat.S_ISREG: the file-type bits of st_mode
S_ISDIR(mode) == (mode \div 4096) % 16 = 4
S_ISREG(mode) == (mode \div 4096) % 16 = 8

\* an entry whose attributes carry no permissions has st_mode None, which
\* the model writes as a negative number
IsNone(mode) == mode < 0

\* `entry.st_mode or 0`
OrZero(mode) == IF IsNone(mode) THEN 0 ELSE mode

\* a call of the session or of the progress display, with how it ended:
\* "ok", "IOError" or "KeyboardInterrupt"
Call(op, a, b, res) == [op |-> op, a |-> a, b |-> b, res |-> res]
Msg(kind, text) == [kind |-> kind, text |-> text]

(***************************************************************************)
(* The lines the operator may type: a command word, then up to MaxPieces   *)
(* pieces, each preceded by one space.                                     *)
(***************************************************************************)
QuitWords == { <<"q">>, <<"q", "u", "i", "t">>, <<"e", "x", "i", "t">> }
W_ls == <<"l", "s">>
W_cd == <<"c", "d">>
GetWords == { <<"g", "e", "t">>, <<"d", "o", "w", "n", "l", "o", "a", "d">> }
CmdWords == QuitWords \cup {W_ls, W_cd} \cup GetWords \cup { <<"x">>, <<>> }

Pieces == { <<"a">>, <<>>, <<DQ, "a">>, <<BS>> }

RECURSIVE Spaced(_)
Spaced(pieces) ==
    IF pieces = <<>> THEN <<>>
    ELSE <<SP>> \o Head(pieces) \o Spaced(Tail(pieces))

Lines == { w \o Spaced(p) : w \in CmdWords, p \in StringsUpTo(Pieces, MaxPieces) }

(***************************************************************************)
(* FTPClient.start_interactive                                             *)
(*                                                                         *)
(* pc: "top"      at the top of the loop body, before line 63              *)
(*     "prompt"   waiting in prompt() (line 64), _pwd refreshed            *)
(*     "transfer" inside download_file, in `with progress` (line 126)      *)
(*     "loop"     at the loop test after an iteration (line 61)            *)
(*     "closing"  left the loop, before line 93                            *)
(*     "done"     start_interactive has returned                           *)
(*     "crashed"  an exception has left start_interactive                  *)
(***************************************************************************)
\* lines 64-66: line = prompt(...).split(' '); cmd = line[0]; args = ...
Cmd(l) == SplitSp(l)[1]
Args(l) ==
    IF Len(SplitSp(l)) > 1
    THEN parse_args(Join(<<SP>>, Tail(SplitSp(l))))
    ELSE [status |-> "ok", tokens |-> <<>>, index |-> 0]

\* a line as read: the raw text with its cmd and args
ReadOf(l) == [raw |-> l, cmd |-> Cmd(l), args |-> Args(l)]
Reads == { ReadOf(l) : l \in Lines }

\* the reads by the branch of lines 66-88 they take
BadReads == { l \in Reads : l.args.status # "ok" }
GoodReads == Reads \ BadReads
QuitReads == { l \in GoodReads : l.cmd \in QuitWords }
LsReads == { l \in GoodReads : l.cmd = W_ls }
CdReads == { l \in GoodReads : l.cmd = W_cd }
GetReads == { l \in GoodReads : l.cmd \in GetWords }
OtherReads == GoodReads \ (QuitReads \cup LsReads \cup CdReads \cup GetReads)

Unbound == [bound |-> FALSE, val |-> <<>>]
Bound(v) == [bound |-> TRUE, val |-> v]
NoXfer == [fname |-> <<>>, save_path |-> <<>>]

\* lines 36-43, on a server whose working directory is one of dirs and lists
\* as one of listings
SessionInitOn(dirs, listings) ==
    /\ closed = FALSE
    /\ pwd = <<>>
    /\ cwd \in dirs
    /\ entries \in listings
    /\ fname = Unbound
    /\ cmd = <<>>
    /\ argc = 0
    /\ pc = "top"
    /\ out = <<>>
    /\ calls = <<>>
    /\ closeCalls = 0
    /\ progressLive = FALSE
    /\ xfer = NoXfer
    /\ exc = "none"
    /\ interrupted = FALSE

SessionInit == SessionInitOn({NoStr, Some(<<"/", "a">>)}, {DefaultEntries})

\* a handler that breaks out of the loop without `self._closed = True`
OnKeyboardInterrupt_NoFlag ==
    /\ closed' = closed
    /\ pc' = "closing"
    /\ interrupted' = TRUE

\* lines 89-91: except KeyboardInterrupt
OnKeyboardInterrupt ==
    /\ closed' = TRUE
    /\ pc' = "closing"
    /\ interrupted' = TRUE

\* an exception no handler of start_interactive catches
Raise(e) ==
    /\ pc' = "crashed"
    /\ exc' = e

GetCwd == Call("getcwd", <<>>, <<>>, "ok")

\* line 63: self._pwd = self._client.getcwd() or ''; then prompt() waits
Refresh ==
    /\ pc = "top"
    /\ pwd' = OrEmpty(cwd)
    /\ calls' = <<GetCwd>>
    /\ pc' = "prompt"
    /\ UNCHANGED <<closed, cwd, entries, fname, cmd, argc, out, closeCalls,
                   progressLive, xfer, exc, interrupted>>

\* lines 64-66: prompt() returns; l is the line read, split and tokenized
ReadLine(l) ==
    /\ pc = "prompt"
    /\ pwd' = pwd
    /\ cmd' = l.cmd
    /\ argc' = IF l.args.status = "ok" THEN Len(l.args.tokens) ELSE -1

\* lines 64, 89-91: the operator interrupts the prompt (Ctrl-C)
PromptInterrupt ==
    /\ pc = "prompt"
    /\ OnKeyboardInterrupt
    /\ UNCHANGED <<pwd, cwd, entries, fname, cmd, argc, out, calls, closeCalls,
                   progressLive, xfer, exc>>

\* line 64: the operator ends the input at the empty prompt (Ctrl-D);
\* prompt() raises EOFError, which nothing catches
PromptEOF ==
    /\ pc = "prompt"
    /\ Raise("EOFError")
    /\ UNCHANGED <<closed, pwd, cwd, entries, fname, cmd, argc, out, calls,
                   closeCalls, progressLive, xfer, interrupted>>

\* line 66: _parse_args raises ValueError, which nothing catches
ParseError(l) ==
    /\ ReadLine(l)
    /\ l.args.status # "ok"
    /\ Raise("ValueError")
    /\ out' = <<>>
    /\ calls' = calls
    /\ UNCHANGED <<closed, cwd, entries, fname, closeCalls, progressLive, xfer,
                   interrupted>>

\* a quit branch that forgets `self._closed = True`
Quit_NoFlag(l) ==
    /\ ReadLine(l)
    /\ l.args.status = "ok"
    /\ l.cmd \in QuitWords
    /\ closed' = closed
    /\ pc' = "loop"
    /\ out' = <<>>
    /\ calls' = calls
    /\ UNCHANGED <<cwd, entries, fname, closeCalls, progressLive, xfer, exc,
                   interrupted>>

\* lines 68-69
Quit(l) ==
    /\ ReadLine(l)
    /\ l.args.status = "ok"
    /\ l.cmd \in QuitWords
    /\ closed' = TRUE
    /\ pc' = "loop"
    /\ out' = <<>>
    /\ calls' = calls
    /\ UNCHANGED <<cwd, entries, fname, closeCalls, progressLive, xfer, exc,
                   interrupted>>

(***************************************************************************)
(* FTPClient.ls and FTPClient._ls_sort                                     *)
(***************************************************************************)
\* code points of the characters the model uses
Ord(c) ==
    CASE c = " " -> 32 [] c = "\"" -> 34 [] c = "'" -> 39 [] c = "." -> 46
      [] c = "/" -> 47 [] c = "A" -> 65 [] c = "B" -> 66 [] c = "\\" -> 92
      [] c = "a" -> 97 [] c = "b" -> 98 [] c = "c" -> 99 [] c = "d" -> 100
      [] OTHER -> 120

\* str < str
RECURSIVE StrLess(_, _)
StrLess(x, y) ==
    IF y = <<>> THEN FALSE
    ELSE IF x = <<>> THEN TRUE
    ELSE IF Ord(Head(x)) # Ord(Head(y)) THEN Ord(Head(x)) < Ord(Head(y))
    ELSE StrLess(Tail(x), Tail(y))

\* lines 130-137: the sort key
ls_sort(item) ==
    IF S_ISDIR(item.st_mode) THEN <<1, item.filename>>
    ELSE IF S_ISREG(item.st_mode) THEN <<2, item.filename>>
    ELSE <<3, item.filename>>

KeyLess(k1, k2) == k1[1] < k2[1] \/ (k1[1] = k2[1] /\ StrLess(k1[2], k2[2]))

\* sorted(seq, key=_ls_sort): a stable insertion sort
RECURSIVE Insert(_, _)
Insert(sorted, e) ==
    IF sorted = <<>> THEN <<e>>
    ELSE IF KeyLess(ls_sort(e), ls_sort(Head(sorted))) THEN <<e>> \o sorted
    ELSE <<Head(sorted)>> \o Insert(Tail(sorted), e)

RECURSIVE Sorted(_)
Sorted(seq) ==
    IF seq = <<>> THEN <<>>
    ELSE Insert(Sorted(SubSeq(seq, 1, Len(seq) - 1)), seq[Len(seq)])

\* line 96: the key function is called on every entry; stat.S_ISDIR(None)
\* raises TypeError
SortRaises(listing) == \E i \in DOMAIN listing : IsNone(listing[i].st_mode)

\* lines 97-104: the line printed for one entry
LsLine(entry) ==
    Msg(IF S_ISDIR(OrZero(entry.st_mode)) THEN "dir"
        ELSE IF S_ISREG(OrZero(entry.st_mode)) THEN "file"
        ELSE "?",
        entry.filename)

\* lines 95-104
LsOutput(listing) == [i \in 1..Len(listing) |-> LsLine(Sorted(listing)[i])]

IsLs(l) == ReadLine(l) /\ l.args.status = "ok" /\ l.cmd = W_ls

ListDir(res) == Call("listdir_attr", <<>>, <<>>, res)

\* lines 70-71, 95-104: the listing arrives and is printed
LsOk(l) ==
    /\ IsLs(l)
    /\ ~SortRaises(entries)
    /\ out' = LsOutput(entries)
    /\ calls' = Append(calls, ListDir("ok"))
    /\ pc' = "loop"
    /\ UNCHANGED <<closed, cwd, entries, fname, closeCalls, progressLive, xfer,
                   exc, interrupted>>

\* lines 96, 131: the listing arrives, _ls_sort raises TypeError on an entry
\* without st_mode, which nothing catches
LsTypeError(l) ==
    /\ IsLs(l)
    /\ SortRaises(entries)
    /\ Raise("TypeError")
    /\ out' = <<>>
    /\ calls' = Append(calls, ListDir("ok"))
    /\ UNCHANGED <<closed, cwd, entries, fname, closeCalls, progressLive, xfer,
                   interrupted>>

\* line 96: listdir_attr raises IOError, which nothing catches
LsIOError(l) ==
    /\ IsLs(l)
    /\ Raise("IOError")
    /\ out' = <<>>
    /\ calls' = Append(calls, ListDir("IOError"))
    /\ UNCHANGED <<closed, cwd, entries, fname, closeCalls, progressLive, xfer,
                   interrupted>>

\* lines 96, 89-91: the operator interrupts the listing
LsInterrupt(l) ==
    /\ IsLs(l)
    /\ OnKeyboardInterrupt
    /\ out' = <<>>
    /\ calls' = Append(calls, ListDir("KeyboardInterrupt"))
    /\ UNCHANGED <<cwd, entries, fname, closeCalls, progressLive, xfer, exc>>

(***************************************************************************)
(* cd: lines 72-75 and FTPClient._execute_safely                           *)
(***************************************************************************)
IsCd(l) == ReadLine(l) /\ l.args.status = "ok" /\ l.cmd = W_cd

\* line 74
CdPath(l) == Join(<<"/">>, <<pwd, l.args.tokens[1]>>)

\* a cd without argument that goes to the login directory
CdNoArg_Home(l) ==
    /\ IsCd(l)
    /\ Len(l.args.tokens) = 0
    /\ cwd' = NoStr
    /\ out' = <<>>
    /\ calls' = calls
    /\ pc' = "loop"
    /\ UNCHANGED <<closed, entries, fname, closeCalls, progressLive, xfer,
                   exc, interrupted>>

\* line 73: no argument, nothing happens
CdNoArg(l) ==
    /\ IsCd(l)
    /\ Len(l.args.tokens) = 0
    /\ out' = <<>>
    /\ calls' = calls
    /\ pc' = "loop"
    /\ UNCHANGED <<closed, cwd, entries, fname, closeCalls, progressLive, xfer,
                   exc, interrupted>>

\* lines 74-75, 179-180: chdir succeeds
CdOk(l) ==
    /\ IsCd(l)
    /\ Len(l.args.tokens) > 0
    /\ CdPath(l) \in RemoteDirs
    /\ cwd' = Some(CdPath(l))
    /\ out' = <<>>
    /\ calls' = Append(calls, Call("chdir", CdPath(l), <<>>, "ok"))
    /\ pc' = "loop"
    /\ UNCHANGED <<closed, entries, fname, closeCalls, progressLive, xfer, exc,
                   interrupted>>

\* chdir called without _execute_safely: the IOError leaves the loop
CdIOError_Uncaught(l) ==
    /\ IsCd(l)
    /\ Len(l.args.tokens) > 0
    /\ Raise("IOError")
    /\ out' = <<>>
    /\ calls' = Append(calls, Call("chdir", CdPath(l), <<>>, "IOError"))
    /\ UNCHANGED <<closed, cwd, entries, fname, closeCalls, progressLive, xfer,
                   interrupted>>

\* lines 74-75, 181-184: chdir raises IOError, _execute_safely prints it
CdIOError(l) ==
    /\ IsCd(l)
    /\ Len(l.args.tokens) > 0
    /\ out' = <<Msg("ioerror", <<>>)>>
    /\ calls' = Append(calls, Call("chdir", CdPath(l), <<>>, "IOError"))
    /\ pc' = "loop"
    /\ UNCHANGED <<closed, cwd, entries, fname, closeCalls, progressLive, xfer,
                   exc, interrupted>>

\* lines 74-75, 89-91: the operator interrupts chdir
CdInterrupt(l) ==
    /\ IsCd(l)
    /\ Len(l.args.tokens) > 0
    /\ OnKeyboardInterrupt
    /\ out' = <<>>
    /\ calls' = Append(calls, Call("chdir", CdPath(l), <<>>, "KeyboardInterrupt"))
    /\ UNCHANGED <<cwd, entries, fname, closeCalls, progressLive, xfer, exc>>

(***************************************************************************)
(* get / download: lines 76-86 and FTPClient.download_file                 *)
(***************************************************************************)
IsGet(l) == ReadLine(l) /\ l.args.status = "ok" /\ l.cmd \in GetWords

\* a test that forgets the upper limit
GetArity_NoUpper(args) == 1 <= Len(args)

\* line 77: 1 <= len(args) <= 2
GetArity(args) == 1 <= Len(args) /\ Len(args) <= 2

\* lines 81-84: the tuple assignment; the right-hand side is evaluated with
\* the value fname has before the assignment, and reading fname while it is
\* unbound raises UnboundLocalError
GetBinding(args, old) ==
    IF Len(args) = 2 THEN
        [raised |-> FALSE, fname |-> args[1], save_path |-> args[2]]
    ELSE IF old.bound THEN
        [raised |-> FALSE, fname |-> args[1], save_path |-> <<".", "/">> \o old.val]
    ELSE
        [raised |-> TRUE, fname |-> <<>>, save_path |-> <<>>]

\* lines 77-79: wrong number of arguments
GetUsage(l) ==
    /\ IsGet(l)
    /\ ~GetArity(l.args.tokens)
    /\ out' = <<Msg("usage", <<>>)>>
    /\ calls' = calls
    /\ pc' = "loop"
    /\ UNCHANGED <<closed, cwd, entries, fname, closeCalls, progressLive, xfer,
                   exc, interrupted>>

\* line 84: f'./{fname}' reads fname before any assignment to it
GetUnbound(l) ==
    /\ IsGet(l)
    /\ GetArity(l.args.tokens)
    /\ GetBinding(l.args.tokens, fname).raised
    /\ Raise("UnboundLocalError")
    /\ out' = <<>>
    /\ calls' = calls
    /\ UNCHANGED <<closed, cwd, entries, fname, closeCalls, progressLive, xfer,
                   interrupted>>

\* lines 81-86, 107-125: bind fname and save_path, call download_file, which
\* builds the Progress display and enters `with progress`
GetStart(l) ==
    /\ IsGet(l)
    /\ GetArity(l.args.tokens)
    /\ LET b == GetBinding(l.args.tokens, fname) IN
        /\ ~b.raised
        /\ fname' = Bound(b.fname)
        /\ xfer' = [fname |-> b.fname, save_path |-> b.save_path]
    /\ progressLive' = TRUE
    /\ pc' = "transfer"
    /\ out' = <<>>
    /\ calls' = Append(calls, Call("progress.start", <<>>, <<>>, "ok"))
    /\ UNCHANGED <<closed, cwd, entries, closeCalls, exc, interrupted>>

\* line 126: the transfer call
GetCall(res) == Call("get", Join(<<"/">>, <<pwd, xfer.fname>>), xfer.save_path, res)

\* lines 125-126: the calls made until `with progress` has exited
TransferCalls(res) == calls \o <<GetCall(res), Call("progress.stop", <<>>, <<>>, "ok")>>

\* lines 125-126: the transfer returns, `with progress` exits
TransferOk ==
    /\ pc = "transfer"
    /\ progressLive' = FALSE
    /\ out' = <<>>
    /\ calls' = TransferCalls("ok")
    /\ pc' = "loop"
    /\ UNCHANGED <<closed, pwd, cwd, entries, fname, cmd, argc, closeCalls,
                   xfer, exc, interrupted>>

\* download_file without its `except IOError`: the error leaves the loop
TransferIOError_Uncaught ==
    /\ pc = "transfer"
    /\ progressLive' = FALSE
    /\ Raise("IOError")
    /\ out' = <<>>
    /\ calls' = TransferCalls("IOError")
    /\ UNCHANGED <<closed, pwd, cwd, entries, fname, cmd, argc, closeCalls,
                   xfer, interrupted>>

\* lines 125-128: the transfer raises IOError, `with progress` exits, the
\* error is printed
TransferIOError ==
    /\ pc = "transfer"
    /\ progressLive' = FALSE
    /\ out' = <<Msg("ioerror", <<>>)>>
    /\ calls' = TransferCalls("IOError")
    /\ pc' = "loop"
    /\ UNCHANGED <<closed, pwd, cwd, entries, fname, cmd, argc, closeCalls,
                   xfer, exc, interrupted>>

\* a transfer outside `with progress`: an interrupt leaves the display running
TransferInterrupt_Leak ==
    /\ pc = "transfer"
    /\ progressLive' = progressLive
    /\ OnKeyboardInterrupt
    /\ out' = <<>>
    /\ calls' = Append(calls, GetCall("KeyboardInterrupt"))
    /\ UNCHANGED <<pwd, cwd, entries, fname, cmd, argc, closeCalls, xfer, exc>>

\* lines 125-126, 89-91: the operator interrupts the transfer; `with progress`
\* exits, download_file does not catch the interrupt, the loop does
TransferInterrupt ==
    /\ pc = "transfer"
    /\ progressLive' = FALSE
    /\ OnKeyboardInterrupt
    /\ out' = <<>>
    /\ calls' = TransferCalls("KeyboardInterrupt")
    /\ UNCHANGED <<pwd, cwd, entries, fname, cmd, argc, closeCalls, xfer, exc>>

\* lines 87-88
Unknown(l) ==
    /\ ReadLine(l)
    /\ l.args.status = "ok"
    /\ l.cmd \notin QuitWords \cup {W_ls, W_cd} \cup GetWords
    /\ out' = <<Msg("Unknown command", <<>>)>>
    /\ calls' = calls
    /\ pc' = "loop"
    /\ UNCHANGED <<closed, cwd, entries, fname, closeCalls, progressLive, xfer,
                   exc, interrupted>>

\* line 61: `while not self._closed`, after an iteration; the next iteration
\* starts with nothing printed and nothing called
LoopTest ==
    /\ pc = "loop"
    /\ pc' = IF closed THEN "closing" ELSE "top"
    /\ IF closed
       THEN UNCHANGED <<cmd, argc, out, calls, xfer>>
       ELSE /\ cmd' = <<>>
            /\ argc' = 0
            /\ out' = <<>>
            /\ calls' = <<>>
            /\ xfer' = NoXfer
    /\ UNCHANGED <<closed, pwd, cwd, entries, fname, closeCalls, progressLive,
                   exc, interrupted>>

\* line 93
Close ==
    /\ pc = "closing"
    /\ closeCalls' = closeCalls + 1
    /\ pc' = "done"
    /\ calls' = Append(calls, Call("close", <<>>, <<>>, "ok"))
    /\ UNCHANGED <<closed, pwd, cwd, entries, fname, cmd, argc, out,
                   progressLive, xfer, exc, interrupted>>

(***************************************************************************)
(* CommandCompleter.get_completions and FTPClient.get_words                *)
(***************************************************************************)
\* line 49
CommandNames ==
    << <<"q", "u", "i", "t">>, <<"l", "s">>, <<"c", "d">>, <<"g", "e", "t">>,
       <<"d", "o", "w", "n", "l", "o", "a", "d">> >>

\* names returned as they are, never quoted
Quoted_Never(name) == name

\* f'"{entry.filename}"' if ' ' in entry.filename else entry.filename
Quoted(name) == IF Contains(name, SP) THEN <<DQ>> \o name \o <<DQ>> ELSE name

\* [Quoted(e.filename) for e in listing if Keep(e.st_mode)]
RECURSIVE DirNames(_)
DirNames(listing) ==
    IF listing = <<>> THEN <<>>
    ELSE (IF S_ISDIR(OrZero(Head(listing).st_mode))
          THEN <<Quoted(Head(listing).filename)>> ELSE <<>>)
         \o DirNames(Tail(listing))

RECURSIVE RegNames(_)
RegNames(listing) ==
    IF listing = <<>> THEN <<>>
    ELSE (IF S_ISREG(OrZero(Head(listing).st_mode))
          THEN <<Quoted(Head(listing).filename)>> ELSE <<>>)
         \o RegNames(Tail(listing))

\* lines 51-56: get_words asks the session for the listing
NeedsListing(l) ==
    /\ Len(SplitSp(l)) = 2
    /\ SplitSp(l)[1] \in {W_cd} \cup GetWords

\* lines 45-58, when listdir_attr does not raise
get_words(l, listing) ==
    LET words == SplitSp(l) IN
    IF Len(words) = 1 THEN CommandNames
    ELSE IF Len(words) = 2 /\ words[1] = W_cd THEN DirNames(listing)
    ELSE IF Len(words) = 2 /\ words[1] \in GetWords THEN RegNames(listing)
    ELSE <<>>

\* str.lower() on one character
LowerChar(c) == CASE c = "A" -> "a" [] c = "B" -> "b" [] OTHER -> c
Lower(str) == [i \in 1..Len(str) |-> LowerChar(str[i])]

\* x in y, for two str
IsSubstring(x, y) ==
    \E i \in 0..(Len(y) - Len(x)) : SubSeq(y, i + 1, i + Len(x)) = x

IsWordChar(c) == c \in {"a", "b", "c", "d", "e", "g", "i", "l", "n", "o", "q",
                        "s", "t", "u", "w", "x", "A", "B"}

\* document.get_word_before_cursor() with the cursor at the end of the line:
\* the run of word characters, or of other non-space characters, that ends
\* the line; '' after a space
RECURSIVE RunStart(_, _, _)
RunStart(str, i, wordRun) ==
    IF i = 0 \/ str[i] = SP \/ IsWordChar(str[i]) # wordRun THEN i + 1
    ELSE RunStart(str, i - 1, wordRun)

WordBeforeCursor(str) ==
    IF str = <<>> \/ str[Len(str)] = SP THEN <<>>
    ELSE SubSeq(str, RunStart(str, Len(str), IsWordChar(str[Len(str)])), Len(str))

\* lines 27-32: the candidates that contain the word before the cursor
RECURSIVE Matching(_, _)
Matching(words, wbc) ==
    IF words = <<>> THEN <<>>
    ELSE (IF IsSubstring(wbc, Lower(Head(words))) THEN <<Head(words)>> ELSE <<>>)
         \o Matching(Tail(words), wbc)

\* no cache: every request recomputes
CountChanged_Always(l) == Len(SplitSp(l)) >= 1

\* line 23
CountChanged(l) == Len(SplitSp(l)) # last_word_count

\* lines 20-32: a request that runs to its end
Complete(l) ==
    /\ docLine' = l
    /\ genCalled' = CountChanged(l)
    /\ genFailed' = FALSE
    /\ genCalls' = IF CountChanged(l) /\ NeedsListing(l) THEN <<ListDir("ok")>> ELSE <<>>
    /\ invCount' = IF CountChanged(l) THEN Len(SplitSp(l)) ELSE invCount
    /\ retCount' = IF CountChanged(l) THEN Len(SplitSp(l)) ELSE retCount
    /\ word_cache' = IF CountChanged(l) THEN get_words(l, entries) ELSE word_cache
    /\ last_word_count' = IF CountChanged(l) THEN Len(SplitSp(l)) ELSE last_word_count
    /\ completions' = Matching(word_cache', Lower(WordBeforeCursor(l)))

\* lines 23-24, 53/56: word_gen is invoked and listdir_attr raises IOError;
\* the request ends at line 24
CompleteRaises(l) ==
    /\ CountChanged(l)
    /\ NeedsListing(l)
    /\ docLine' = l
    /\ genCalled' = TRUE
    /\ genFailed' = TRUE
    /\ genCalls' = <<ListDir("IOError")>>
    /\ invCount' = Len(SplitSp(l))
    /\ completions' = <<>>
    /\ UNCHANGED <<word_cache, last_word_count, retCount>>

(***************************************************************************)
(* Specifications.                                                         *)
(***************************************************************************)
TokIdle ==
    /\ tokIn = <<>>
    /\ ps = ParseInit
    /\ tokResult = Pending

\* lines 15-18: CommandCompleter.__init__
CompInit ==
    /\ last_word_count = -1
    /\ word_cache = <<>>
    /\ docLine = <<>>
    /\ completions = <<>>
    /\ genCalled = FALSE
    /\ genFailed = FALSE
    /\ genCalls = <<>>
    /\ invCount = -1
    /\ retCount = -1

\* no get line remembered
NoRef == [set |-> FALSE, args |-> <<>>, pwd |-> <<>>, src |-> <<>>, save_path |-> <<>>]

\* no line read
NoLine == [raw |-> <<>>, cmd |-> <<>>,
           args |-> [status |-> "ok", tokens |-> <<>>, index |-> 0]]

ObsIdle ==
    /\ line = NoLine
    /\ ref = NoRef

Init == SessionInit /\ TokIdle /\ CompInit /\ ObsIdle

Next ==
    \/ Refresh /\ UNCHANGED <<tokVars, compVars, obsVars>>
    \/ PromptInterrupt /\ UNCHANGED <<tokVars, compVars, obsVars>>
    \/ PromptEOF /\ UNCHANGED <<tokVars, compVars, obsVars>>
    \/ \E l \in BadReads : ParseError(l) /\ UNCHANGED <<tokVars, compVars, obsVars>>
    \/ \E l \in QuitReads : Quit(l) /\ UNCHANGED <<tokVars, compVars, obsVars>>
    \/ \E l \in LsReads : LsOk(l) /\ UNCHANGED <<tokVars, compVars, obsVars>>
    \/ \E l \in LsReads : LsIOError(l) /\ UNCHANGED <<tokVars, compVars, obsVars>>
    \/ \E l \in LsReads : LsInterrupt(l) /\ UNCHANGED <<tokVars, compVars, obsVars>>
    \/ \E l \in CdReads : CdNoArg(l) /\ UNCHANGED <<tokVars, compVars, obsVars>>
    \/ \E l \in CdReads : CdOk(l) /\ UNCHANGED <<tokVars, compVars, obsVars>>
    \/ \E l \in CdReads : CdIOError(l) /\ UNCHANGED <<tokVars, compVars, obsVars>>
    \/ \E l \in CdReads : CdInterrupt(l) /\ UNCHANGED <<tokVars, compVars, obsVars>>
    \/ \E l \in GetReads : GetUsage(l) /\ UNCHANGED <<tokVars, compVars, obsVars>>
    \/ \E l \in GetReads : GetUnbound(l) /\ UNCHANGED <<tokVars, compVars, obsVars>>
    \/ \E l \in GetReads : GetStart(l) /\ UNCHANGED <<tokVars, compVars, obsVars>>
    \/ TransferOk /\ UNCHANGED <<tokVars, compVars, obsVars>>
    \/ TransferIOError /\ UNCHANGED <<tokVars, compVars, obsVars>>
    \/ TransferInterrupt /\ UNCHANGED <<tokVars, compVars, obsVars>>
    \/ \E l \in OtherReads : Unknown(l) /\ UNCHANGED <<tokVars, compVars, obsVars>>
    \/ LoopTest /\ UNCHANGED <<tokVars, compVars, obsVars>>
    \/ Close /\ UNCHANGED <<tokVars, compVars, obsVars>>

\* the session loop
Spec == Init /\ [][Next]_vars

\* a session that is not running, for the specifications of the parts
SessionIdle == SessionInit /\ cwd = NoStr

\* _parse_args on its own, on every string of at most MaxLen characters
TokAlphabet == {"a", "b", SP, DQ, SQ, BS}

TokInit ==
    /\ tokIn \in StringsUpTo(TokAlphabet, MaxLen)
    /\ ps = ParseInit
    /\ tokResult = Pending

\* lines 147-165: the loop takes the next character
TokScan ==
    /\ tokResult = Pending
    /\ ps.index < Len(tokIn)
    /\ ps' = ParseChar(ps, tokIn[ps.index + 1])
    /\ UNCHANGED <<tokIn, tokResult>>

\* lines 167-176: the input is used up
TokFinish ==
    /\ tokResult = Pending
    /\ ps.index = Len(tokIn)
    /\ tokResult' = ParseEnd(ps)
    /\ UNCHANGED <<tokIn, ps>>

InitTok == SessionIdle /\ TokInit /\ CompInit /\ ObsIdle

NextTok ==
    \/ TokScan /\ UNCHANGED <<sessionVars, compVars, obsVars>>
    \/ TokFinish /\ UNCHANGED <<sessionVars, compVars, obsVars>>

SpecTok == InitTok /\ [][NextTok]_vars

\* one CommandCompleter, asked for completions of one line after another
CompLines == { w \o Spaced(p) : w \in {<<>>, <<"c">>, W_cd, W_ls} \cup GetWords,
                                p \in StringsUpTo({<<>>, <<"a">>, <<"b">>}, MaxWords) }

InitComp == SessionIdle /\ TokIdle /\ CompInit /\ ObsIdle

NextComp ==
    \/ \E l \in CompLines : Complete(l) /\ UNCHANGED <<sessionVars, tokVars, obsVars>>
    \/ \E l \in CompLines : CompleteRaises(l) /\ UNCHANGED <<sessionVars, tokVars, obsVars>>

SpecComp == InitComp /\ [][NextComp]_vars

\* ls on its own, on every directory of at most MaxEntries entries: names
\* that differ in case, one with a space, every kind, and entries whose
\* attributes carry no st_mode
LsNames == { <<"a">>, <<"b">>, <<"B", " ", "a">> }
LsModes == {16877, 33188, 41471, -1}
LsPool == { [filename |-> n, st_mode |-> m] : n \in LsNames, m \in LsModes }
Listings ==
    { q \in StringsUpTo(LsPool, MaxEntries) :
        \A i, j \in DOMAIN q : i # j => q[i] # q[j] }

\* `ls`, `ls ` and `ls a`
LsOnly == { l \in LsReads : Len(l.raw) <= 4 }

InitLs == SessionInitOn({NoStr}, Listings) /\ TokIdle /\ CompInit /\ ObsIdle

NextLs ==
    \/ Refresh /\ UNCHANGED <<tokVars, compVars, obsVars>>
    \/ \E l \in LsOnly : LsOk(l) /\ UNCHANGED <<tokVars, compVars, obsVars>>
    \/ \E l \in LsOnly : LsTypeError(l) /\ UNCHANGED <<tokVars, compVars, obsVars>>
    \/ \E l \in LsOnly : LsIOError(l) /\ UNCHANGED <<tokVars, compVars, obsVars>>
    \/ \E l \in LsOnly : LsInterrupt(l) /\ UNCHANGED <<tokVars, compVars, obsVars>>
    \/ LoopTest /\ UNCHANGED <<tokVars, compVars, obsVars>>
    \/ Close /\ UNCHANGED <<tokVars, compVars, obsVars>>

SpecLs == InitLs /\ [][NextLs]_vars

\* get and download lines on their own, one after another in a session; a
\* line that starts a download may be remembered, with the _pwd it was
\* read at and the call it led to
RefOf(l, dir, x) ==
    [set |-> TRUE, args |-> l.args.tokens, pwd |-> dir,
     src |-> Join(<<"/">>, <<dir, x.fname>>), save_path |-> x.save_path]

Observe(l) ==
    /\ line' = l
    /\ ref' \in {ref, RefOf(l, pwd', xfer')}

\* the get and download lines with at most six characters after the word
GetOnly == { l \in GetReads : Len(l.raw) - Len(l.cmd) <= 6 }

InitGet == SessionInit /\ TokIdle /\ CompInit /\ ObsIdle

NextGet ==
    \/ Refresh /\ UNCHANGED <<tokVars, compVars, obsVars>>
    \/ \E l \in GetOnly : GetUsage(l) /\ UNCHANGED <<tokVars, compVars, obsVars>>
    \/ \E l \in GetOnly : GetUnbound(l) /\ UNCHANGED <<tokVars, compVars, obsVars>>
    \/ \E l \in GetOnly : GetStart(l) /\ Observe(l) /\ UNCHANGED <<tokVars, compVars>>
    \/ TransferOk /\ UNCHANGED <<tokVars, compVars, obsVars>>
    \/ TransferIOError /\ UNCHANGED <<tokVars, compVars, obsVars>>
    \/ TransferInterrupt /\ UNCHANGED <<tokVars, compVars, obsVars>>
    \/ LoopTest /\ line' = NoLine /\ UNCHANGED <<tokVars, compVars, ref>>
    \/ Close /\ UNCHANGED <<tokVars, compVars, obsVars>>

SpecGet == InitGet /\ [][NextGet]_vars

\* the shell as the operator meets it: lines with spaces before the command
\* word and several spaces before the arguments, and, while the prompt
\* waits, completion requests to the CommandCompleter of that prompt
Lead(k) == [i \in 1..k |-> SP]
ShellWords == { W_ls, <<"q">>, W_cd, <<"g", "e", "t">>, <<"x">> }
ShellRests == { <<>>, <<SP, "a">>, <<SP, SP, "a", SP, "a">> }
ShellLines == { Lead(k) \o w \o r : k \in 0..MaxLead, w \in ShellWords, r \in ShellRests }
ShellReads == { ReadOf(l) : l \in ShellLines }
ShellCompLines == { <<"c">>, <<"c", "d", SP>>, <<"g", "e", "t", SP, "a">> }

\* line 64: prompt() has returned line l; the CommandCompleter built for it
\* is dropped, the next prompt gets a new one (lines 15-18)
Typed(l) ==
    /\ line' = l
    /\ ref' = ref
    /\ last_word_count' = -1
    /\ word_cache' = <<>>
    /\ docLine' = <<>>
    /\ completions' = <<>>
    /\ genCalled' = FALSE
    /\ genFailed' = FALSE
    /\ genCalls' = <<>>
    /\ invCount' = -1
    /\ retCount' = -1
    /\ UNCHANGED tokVars

\* line 64: while prompt() waits, the input service asks for completions
AtPrompt == pc = "prompt" /\ UNCHANGED <<sessionVars, tokVars, obsVars>>

InitShell == SessionInit /\ TokIdle /\ CompInit /\ ObsIdle

NextShell ==
    \/ Refresh /\ UNCHANGED <<tokVars, compVars, obsVars>>
    \/ \E l \in ShellCompLines : AtPrompt /\ Complete(l)
    \/ \E l \in ShellCompLines : AtPrompt /\ CompleteRaises(l)
    \/ PromptInterrupt /\ UNCHANGED <<tokVars, compVars, obsVars>>
    \/ PromptEOF /\ UNCHANGED <<tokVars, compVars, obsVars>>
    \/ \E l \in ShellReads : Quit(l) /\ Typed(l)
    \/ \E l \in ShellReads : LsOk(l) /\ Typed(l)
    \/ \E l \in ShellReads : LsIOError(l) /\ Typed(l)
    \/ \E l \in ShellReads : CdNoArg(l) /\ Typed(l)
    \/ \E l \in ShellReads : CdOk(l) /\ Typed(l)
    \/ \E l \in ShellReads : CdIOError(l) /\ Typed(l)
    \/ \E l \in ShellReads : GetUsage(l) /\ Typed(l)
    \/ \E l \in ShellReads : GetUnbound(l) /\ Typed(l)
    \/ \E l \in ShellReads : GetStart(l) /\ Typed(l)
    \/ TransferOk /\ UNCHANGED <<tokVars, compVars, obsVars>>
    \/ TransferIOError /\ UNCHANGED <<tokVars, compVars, obsVars>>
    \/ TransferInterrupt /\ UNCHANGED <<tokVars, compVars, obsVars>>
    \/ \E l \in ShellReads : Unknown(l) /\ Typed(l)
    \/ LoopTest /\ line' = NoLine /\ UNCHANGED <<tokVars, compVars, ref>>
    \/ Close /\ UNCHANGED <<tokVars, compVars, obsVars>>

SpecShell == InitShell /\ [][NextShell]_vars

\* the word source on its own: the first request to a new CommandCompleter,
\* which always invokes get_words, on every line and every directory of
\* fewer than MaxEntries entries
WordListings == { q \in Listings : Len(q) < MaxEntries }

\* the lines of at most three space-split tokens
WordLines == { l \in CompLines : Len(SplitSp(l)) <= 3 }

FirstRequest(l) == last_word_count = -1 /\ invCount = -1 /\ Complete(l)
FirstRequestRaises(l) == last_word_count = -1 /\ invCount = -1 /\ CompleteRaises(l)

InitWords == SessionInitOn({NoStr}, WordListings) /\ TokIdle /\ CompInit /\ ObsIdle

NextWords ==
    \/ \E l \in WordLines : FirstRequest(l) /\ UNCHANGED <<sessionVars, tokVars, obsVars>>
    \/ \E l \in WordLines : FirstRequestRaises(l) /\ UNCHANGED <<sessionVars, tokVars, obsVars>>

SpecWords == InitWords /\ [][NextWords]_vars


(***************************************************************************)
(* The session loop: claims C1 - C6, checked under Spec.                   *)
(***************************************************************************)
HasCall(op, res) == \E i \in DOMAIN calls : calls[i].op = op /\ calls[i].res = res

\* C1: when _parse_args fails on the rest of a line, the failure is
\* reported (one message is printed), no command is executed (nothing but
\* the getcwd of line 63 is called), the session stays RUNNING and the loop
\* goes on to its test and the next prompt.
C1_TokenizerFailureReported ==
    argc = -1 =>
        /\ pc = "loop"
        /\ ~closed
        /\ Len(out) = 1
        /\ calls = <<GetCwd>>

\* C2: whenever start_interactive has ended, by returning or by an
\* exception, close() has been called on the session.
C2_CloseOnEveryExit == pc \in {"done", "crashed"} => closeCalls >= 1

\* C3: once a KeyboardInterrupt has been raised inside the loop (at the
\* prompt, in listdir_attr, in chdir or in the transfer), the closed flag
\* is set, the loop has been left for good (no prompt is read again), and
\* close() is called exactly once: not before the loop is left, once when
\* start_interactive has returned.
C3_InterruptClosesOnce ==
    interrupted =>
        /\ closed
        /\ pc \in {"closing", "done"}
        /\ exc = "none"
        /\ closeCalls = IF pc = "done" THEN 1 ELSE 0

\* an interrupted transfer, after start_interactive has returned
C3_Witness ==
    /\ interrupted
    /\ pc = "done"
    /\ closeCalls = 1
    /\ HasCall("get", "KeyboardInterrupt")

\* C4: a get/download line with exactly one argument f reaches the
\* download with source filename f and save path './' + f.
C4_OneArgSavePath ==
    (cmd \in GetWords /\ argc = 1) =>
        /\ pc # "crashed"
        /\ xfer.fname # <<>>
        /\ xfer.save_path = <<".", "/">> \o xfer.fname

\* C5: a get/download line whose argument count is not 1 or 2 prints the
\* usage message, calls nothing but the getcwd of line 63 (no download),
\* leaves closed flag, remote directory, fname, display and close count as
\* they were, with _pwd the refreshed working directory, and goes to the
\* loop test, which leads to the next prompt.
C5_BadArityIsUsageError ==
    /\ [][(pc = "prompt" /\ cmd' \in GetWords /\ argc' \notin {-1, 1, 2}) =>
            /\ out' = <<Msg("usage", <<>>)>>
            /\ calls' = <<GetCwd>>
            /\ pc' = "loop"
            /\ closed' = closed
            /\ cwd' = cwd
            /\ pwd' = pwd /\ pwd = OrEmpty(cwd)
            /\ fname' = fname
            /\ progressLive' = progressLive
            /\ closeCalls' = closeCalls
            /\ exc' = exc]_vars
    /\ [][(pc = "loop" /\ cmd \in GetWords /\ argc \notin {-1, 1, 2}) =>
            pc' = "top"]_vars

\* a get with three arguments has been answered with the usage message
C5_Witness ==
    /\ pc = "loop"
    /\ cmd \in GetWords
    /\ argc = 3
    /\ out = <<Msg("usage", <<>>)>>

\* C6: when the chdir of a cd fails with IOError, the error is printed,
\* the remote directory is what it was, _pwd is that directory, no exception
\* leaves the loop, the session stays RUNNING, and the loop test leads to
\* the next prompt with the same directory.
C6_FailedCdChangesNothing ==
    /\ [][(pc = "prompt" /\ Len(calls') = 2 /\ calls'[2].op = "chdir"
            /\ calls'[2].res = "IOError") =>
            /\ out' = <<Msg("ioerror", <<>>)>>
            /\ cwd' = cwd
            /\ pwd' = pwd /\ pwd = OrEmpty(cwd)
            /\ pc' = "loop"
            /\ closed' = closed
            /\ exc' = "none"]_vars
    /\ [][(pc = "loop" /\ HasCall("chdir", "IOError")) =>
            /\ pc' = "top"
            /\ cwd' = cwd
            /\ pwd' = pwd]_vars

\* a cd inside /a has failed and the session is still in /a
C6_Witness ==
    /\ pc = "loop"
    /\ cmd = W_cd
    /\ HasCall("chdir", "IOError")
    /\ out = <<Msg("ioerror", <<>>)>>
    /\ cwd = Some(<<"/", "a">>)
    /\ pwd = <<"/", "a">>


(***************************************************************************)
(* The completion cache: claim C7, checked under SpecComp.                 *)
(***************************************************************************)
TokenCount(l) == Len(SplitSp(l))

\* C7 as stated: a request invokes word_gen exactly when the token count
\* of its line differs from the count at the previous invocation (-1, the
\* sentinel, before the first), and of two consecutive requests with the
\* same token count at most one invokes it.
C7_InvokedIffCountChanged ==
    /\ [][genCalled' <=> (TokenCount(docLine') # invCount)]_vars
    /\ [][(TokenCount(docLine') = TokenCount(docLine)) =>
            ~(genCalled /\ genCalled')]_vars

\* C7 as the code has it: a request invokes word_gen exactly when the token
\* count of its line differs from the count at the latest invocation that
\* returned a list (the sentinel if none has); of two consecutive requests
\* with the same token count the second invokes it only if the first
\* invoked it and it raised (invCount = -1: there was no request yet).
C7_InvokedIffCountDiffersFromReturned ==
    /\ [][genCalled' <=> (TokenCount(docLine') # retCount)]_vars
    /\ [][(invCount # -1 /\ TokenCount(docLine') = TokenCount(docLine)
            /\ genCalled') =>
            (genCalled /\ genFailed)]_vars

\* a request at the second token served from the cache
C7_Witness ==
    /\ ~genCalled
    /\ TokenCount(docLine) = 2
    /\ retCount = 2
    /\ word_cache = DirNames(entries)


(***************************************************************************)
(* The tokenizer: claims C8 - C10, checked under SpecTok.                  *)
(***************************************************************************)
TokDone == tokResult # Pending

\* number of backslashes that end s
RECURSIVE TrailingBS(_)
TrailingBS(str) ==
    IF str = <<>> \/ str[Len(str)] # BS THEN 0
    ELSE 1 + TrailingBS(SubSeq(str, 1, Len(str) - 1))

\* the last character is a backslash that no backslash before it escapes
EndsInUnescapedEscape(str) == TrailingBS(str) % 2 = 1

\* C8: at the end of the input the outcome is UnterminatedQuote if a quote
\* is open (also when the input ends in an unescaped backslash), otherwise
\* DanglingEscape if the input ends in an unescaped backslash, otherwise
\* success, the returned tokens being the completed ones followed by the
\* remaining buffer if that is not empty.
C8_EndOfInputOutcome ==
    TokDone =>
        /\ tokResult.status =
              IF ps.quote # None THEN "UnterminatedQuote"
              ELSE IF EndsInUnescapedEscape(tokIn) THEN "DanglingEscape"
              ELSE "ok"
        /\ tokResult.status = "ok" =>
              /\ ps.arg # <<>> =>
                    /\ Len(tokResult.tokens) = Len(ps.parsed) + 1
                    /\ tokResult.tokens[Len(tokResult.tokens)] = ps.arg
              /\ ps.arg = <<>> => tokResult.tokens = ps.parsed
              /\ \A i \in 1..Len(ps.parsed) : tokResult.tokens[i] = ps.parsed[i]

\* an open quote and a pending escape at once: UnterminatedQuote
C8_Witness ==
    /\ TokDone
    /\ ps.quote # None
    /\ EndsInUnescapedEscape(tokIn)
    /\ tokResult.status = "UnterminatedQuote"

\* no quote and no escape character in s
Plain(str) == \A i \in 1..Len(str) : str[i] \notin {DQ, SQ, BS}

\* the positions where a maximal run of non-spaces starts, and where it ends
RunStarts(str) ==
    { i \in 1..Len(str) : str[i] # SP /\ (i = 1 \/ str[i - 1] = SP) }
RunEnd(str, i) ==
    CHOOSE j \in i..Len(str) :
        /\ \A k \in i..j : str[k] # SP
        /\ (j = Len(str) \/ str[j + 1] = SP)

\* the maximal runs of non-spaces of s, from left to right
RECURSIVE RunsFrom(_, _)
RunsFrom(str, starts) ==
    IF starts = {} THEN <<>>
    ELSE LET i == CHOOSE x \in starts : \A y \in starts : x <= y IN
         <<SubSeq(str, i, RunEnd(str, i))>> \o RunsFrom(str, starts \ {i})
Runs(str) == RunsFrom(str, RunStarts(str))

\* s without its leading and trailing spaces, each inner run of spaces
\* replaced by one space: a space is kept if a non-space precedes it and a
\* non-space follows somewhere
RECURSIVE CollapseFrom(_, _)
CollapseFrom(str, i) ==
    IF i > Len(str) THEN <<>>
    ELSE (IF str[i] # SP
             \/ (i > 1 /\ str[i - 1] # SP /\ \E j \in (i + 1)..Len(str) : str[j] # SP)
          THEN <<str[i]>> ELSE <<>>)
         \o CollapseFrom(str, i + 1)
Collapse(str) == CollapseFrom(str, 1)

\* C9: on an input without quote and escape characters the tokenizer returns
\* the maximal runs of non-spaces, and joining them with single spaces gives
\* the input with runs of spaces collapsed and outer spaces removed.
C9_PlainInputSplitsIntoRuns ==
    (TokDone /\ Plain(tokIn)) =>
        /\ tokResult.status = "ok"
        /\ tokResult.tokens = Runs(tokIn)
        /\ Join(<<SP>>, tokResult.tokens) = Collapse(tokIn)

\* ' a  b' and the like: leading space, a run of spaces, two tokens
C9_Witness ==
    /\ TokDone
    /\ Plain(tokIn)
    /\ Len(tokIn) >= 4
    /\ tokIn[1] = SP
    /\ \E i \in 2..(Len(tokIn) - 2) : tokIn[i] = SP /\ tokIn[i + 1] = SP
    /\ Len(tokResult.tokens) = 2

\* s without the positions in drop
RECURSIVE Without(_, _, _)
Without(str, drop, i) ==
    IF i > Len(str) THEN <<>>
    ELSE (IF i \in drop THEN <<>> ELSE <<str[i]>>) \o Without(str, drop, i + 1)

\* s is x q m q y: one quoted stretch from i to j, nothing else special, all
\* spaces inside the quotes
OneQuotedStretch(str, i, j) ==
    /\ i < j
    /\ str[i] \in {DQ, SQ}
    /\ str[j] = str[i]
    /\ \A k \in (1..Len(str)) \ {i, j} :
        /\ str[k] # BS
        /\ str[k] # str[i]
        /\ str[k] \in {DQ, SQ, SP} => (i < k /\ k < j)

\* s is x \ c y outside quotes: one backslash at i, not last, no quotes, no
\* space but possibly the escaped character
OneEscape(str, i) ==
    /\ i < Len(str)
    /\ str[i] = BS
    /\ \A k \in (1..Len(str)) \ {i, i + 1} : str[k] \notin {BS, DQ, SQ, SP}

\* s is q x \ c y q: the same inside a pair of quotes
OneEscapeInQuotes(str, i) ==
    /\ Len(str) >= 4
    /\ str[1] \in {DQ, SQ}
    /\ str[Len(str)] = str[1]
    /\ 1 < i /\ i < Len(str) - 1
    /\ str[i] = BS
    /\ \A k \in (2..(Len(str) - 1)) \ {i, i + 1} : str[k] \notin {BS, str[1]}

OneToken(str) == IF str = <<>> THEN <<>> ELSE <<str>>

\* C10: a space ends a token only when it is neither escaped nor inside
\* quotes (and then it does, if the buffer is not empty); a quote that opens
\* or closes adds no character and ends no token, so a quoted stretch in the
\* middle of a token stays in the token; an escaped character is appended as
\* it is, inside and outside quotes; no token is empty; the empty input gives
\* no tokens.
C10_SplittingQuotingEscaping ==
    /\ [][ps' # ps =>
            LET char == tokIn[ps'.index] IN
            /\ ps'.parsed # ps.parsed =>
                  /\ char = SP /\ ~ps.escaping /\ ps.quote = None
                  /\ ps'.parsed = Append(ps.parsed, ps.arg)
            /\ (char = SP /\ ~ps.escaping /\ ps.quote = None /\ ps.arg # <<>>) =>
                  ps'.parsed = Append(ps.parsed, ps.arg) /\ ps'.arg = <<>>
            /\ ps'.quote # ps.quote =>
                  /\ char \in {DQ, SQ} /\ ~ps.escaping
                  /\ ps'.arg = ps.arg /\ ps'.parsed = ps.parsed
            /\ ps.escaping =>
                  /\ ps'.arg = ps.arg \o <<char>>
                  /\ ps'.parsed = ps.parsed /\ ps'.quote = ps.quote
                  /\ ~ps'.escaping]_vars
    /\ [](\A i \in 1..Len(ps.parsed) : ps.parsed[i] # <<>>)
    /\ [](TokDone =>
            /\ \A i \in 1..Len(tokResult.tokens) : tokResult.tokens[i] # <<>>
            /\ tokIn = <<>> => tokResult = [status |-> "ok", tokens |-> <<>>, index |-> 0]
            /\ \A i, j \in 1..Len(tokIn) :
                  OneQuotedStretch(tokIn, i, j) =>
                      /\ tokResult.status = "ok"
                      /\ tokResult.tokens = OneToken(Without(tokIn, {i, j}, 1))
            /\ \A i \in 1..Len(tokIn) :
                  /\ OneEscape(tokIn, i) =>
                      /\ tokResult.status = "ok"
                      /\ tokResult.tokens = OneToken(Without(tokIn, {i}, 1))
                  /\ OneEscapeInQuotes(tokIn, i) =>
                      /\ tokResult.status = "ok"
                      /\ tokResult.tokens =
                            OneToken(Without(tokIn, {1, i, Len(tokIn)}, 1)))

\* a" "b and the like: quotes inside a token, around a space, one token
C10_Witness ==
    /\ TokDone
    /\ \E i, j \in 2..(Len(tokIn) - 1) :
        /\ OneQuotedStretch(tokIn, i, j)
        /\ \E k \in (i + 1)..(j - 1) : tokIn[k] = SP
    /\ Len(tokResult.tokens) = 1
    /\ Len(tokResult.tokens[1]) = Len(tokIn) - 2


(***************************************************************************)
(* ls: claim C11, checked under SpecLs.                                    *)
(***************************************************************************)
\* the rank of a printed line's kind: directories, regular files, others
LineKind(m) == IF m.kind = "dir" THEN 1 ELSE IF m.kind = "file" THEN 2 ELSE 3

\* how often line x is in the sequence of lines q
Occurrences(q, x) == Cardinality({ i \in DOMAIN q : q[i] = x })

\* C11: when ls has retrieved the listing, it prints one line per entry,
\* every entry exactly once, directories before regular files before other
\* kinds and within a kind by ascending case-sensitive filename; the
\* entries (dir b), (file a), (dir a) are shown as dir a, dir b, file a.
C11_LsShowsEveryEntrySorted ==
    (cmd = W_ls /\ HasCall("listdir_attr", "ok")) =>
        /\ pc = "loop"
        /\ Len(out) = Len(entries)
        /\ \A i \in DOMAIN entries :
              Occurrences(out, LsLine(entries[i]))
                = Occurrences([j \in DOMAIN entries |-> LsLine(entries[j])],
                              LsLine(entries[i]))
        /\ \A i, j \in DOMAIN out :
              i < j =>
                \/ LineKind(out[i]) < LineKind(out[j])
                \/ /\ LineKind(out[i]) = LineKind(out[j])
                   /\ ~StrLess(out[j].text, out[i].text)
        /\ entries = << [filename |-> <<"b">>, st_mode |-> 16877],
                        [filename |-> <<"a">>, st_mode |-> 33188],
                        [filename |-> <<"a">>, st_mode |-> 16877] >> =>
              out = << Msg("dir", <<"a">>), Msg("dir", <<"b">>), Msg("file", <<"a">>) >>


(***************************************************************************)
(* Errors of commands and the end of the session: claims C12 - C14,        *)
(* checked under Spec.                                                     *)
(***************************************************************************)
\* C12: no exception raised while a command line is handled (so not the
\* EOFError of the prompt itself, which precedes any command) leaves the
\* loop; in particular, when listdir_attr raises IOError during ls, one
\* message is printed, the session stays RUNNING and the loop goes on to its
\* test and the next prompt.
C12_CommandErrorsCaught ==
    /\ exc \in {"none", "EOFError"}
    /\ pc = "crashed" => exc = "EOFError"
    /\ HasCall("listdir_attr", "IOError") =>
          /\ pc = "loop"
          /\ ~closed
          /\ out = <<Msg("ioerror", <<>>)>>

\* C13: when the transfer of a download raises IOError, the error is
\* printed, the closed flag, the remote directory and _pwd are what they
\* were, the display is stopped, no exception leaves the loop and close() is
\* not called; the loop test then leads to the next prompt, still RUNNING.
C13_FailedDownloadIsRecoverable ==
    /\ [][(pc = "transfer" /\ calls'[Len(calls') - 1].op = "get"
            /\ calls'[Len(calls') - 1].res = "IOError") =>
            /\ out' = <<Msg("ioerror", <<>>)>>
            /\ closed' = closed /\ ~closed
            /\ cwd' = cwd
            /\ pwd' = pwd
            /\ progressLive' = FALSE
            /\ closeCalls' = closeCalls
            /\ exc' = "none"
            /\ pc' = "loop"]_vars
    /\ [][(pc = "loop" /\ HasCall("get", "IOError")) =>
            /\ pc' = "top"
            /\ closed' = closed
            /\ cwd' = cwd
            /\ closeCalls' = closeCalls]_vars

\* a download inside /a has failed; the session is RUNNING in /a, not closed
C13_Witness ==
    /\ pc = "loop"
    /\ HasCall("get", "IOError")
    /\ out = <<Msg("ioerror", <<>>)>>
    /\ ~closed
    /\ closeCalls = 0
    /\ cwd = Some(<<"/", "a">>)
    /\ pwd = <<"/", "a">>

\* C14: a line whose command is q, quit or exit (and whose arguments
\* tokenize) sets the closed flag and does nothing else; once the flag is
\* set it stays set, the loop is at its test or behind it (no prompt is read,
\* no transfer runs), the only call still made is close(), the loop test
\* leaves the loop, and close() is called exactly once, when
\* start_interactive returns.
C14_QuitClosesForGood ==
    /\ [][(pc = "prompt" /\ cmd' \in QuitWords /\ argc' # -1) =>
            /\ closed'
            /\ pc' = "loop"
            /\ out' = <<>>
            /\ calls' = <<GetCwd>>
            /\ cwd' = cwd]_vars
    /\ [][closed =>
            /\ closed'
            /\ cmd' = cmd /\ argc' = argc /\ pwd' = pwd /\ cwd' = cwd
            /\ out' = out /\ xfer' = xfer /\ fname' = fname
            /\ (calls' = calls
                \/ calls' = Append(calls, Call("close", <<>>, <<>>, "ok")))
            /\ (pc = "loop" => pc' = "closing")
            /\ (pc = "closing" => pc' = "done" /\ closeCalls' = 1)]_vars
    /\ [](closed =>
            /\ pc \in {"loop", "closing", "done"}
            /\ closeCalls = IF pc = "done" THEN 1 ELSE 0)

\* `exit` has ended the session: closed, returned, close() called once
C14_Witness ==
    /\ pc = "done"
    /\ closed
    /\ ~interrupted
    /\ cmd = <<"e", "x", "i", "t">>
    /\ closeCalls = 1
    /\ calls = <<GetCwd, Call("close", <<>>, <<>>, "ok")>>


(***************************************************************************)
(* The download a get line leads to: claim C15, checked under SpecGet.     *)
(***************************************************************************)
\* C15: the download call of a get/download line is determined by the
\* line's arguments and the working directory: whenever a line with the
\* arguments of a remembered line is read at the same _pwd, whatever was
\* typed in between, the transfer has the same remote source and the same
\* save path as the remembered one.
C15_DownloadDependsOnLineOnly ==
    (pc = "transfer" /\ ref.set /\ ref.args = line.args.tokens /\ ref.pwd = pwd) =>
        /\ Join(<<"/">>, <<pwd, xfer.fname>>) = ref.src
        /\ xfer.save_path = ref.save_path


(***************************************************************************)
(* Dispatch: claim C16, checked under SpecShell.                           *)
(***************************************************************************)
\* the first whitespace-delimited token of a line, '' if it has none
FirstToken(str) == IF Runs(str) = <<>> THEN <<>> ELSE Runs(str)[1]

Recognized == QuitWords \cup {W_ls, W_cd} \cup GetWords

\* C16: the command a line is dispatched on is its first
\* whitespace-delimited token, also when spaces precede it or several spaces
\* follow it; when that token is no recognized name, "Unknown command" is
\* printed, nothing but the getcwd of line 63 is called, and the loop goes on
\* to its test, still RUNNING.
C16_DispatchOnFirstToken ==
    line # NoLine =>
        /\ cmd = FirstToken(line.raw)
        /\ FirstToken(line.raw) \notin Recognized =>
              /\ out = <<Msg("Unknown command", <<>>)>>
              /\ calls = <<GetCwd>>
              /\ pc = "loop"
              /\ ~closed


(***************************************************************************)
(* The remote working directory: claim C17, checked under SpecShell.       *)
(***************************************************************************)
\* C17: a step changes the remote working directory only if it is a cd
\* line with an argument whose chdir succeeded, and then to the path given
\* to chdir; so ls, get and download (the start of the transfer and its
\* end, successful, failed or interrupted), cd without argument, a failed
\* cd, unknown commands and usage errors leave it as it is; a completion
\* request leaves the whole session as it is, and its word source calls
\* nothing but listdir_attr.
C17_OnlyCdChangesDirectory ==
    /\ [][cwd' # cwd =>
            /\ pc = "prompt"
            /\ cmd' = W_cd
            /\ argc' >= 1
            /\ calls' = <<GetCwd, Call("chdir", cwd'.s, <<>>, "ok")>>
            /\ ~cwd'.none]_vars
    /\ [][(cmd' \in {W_ls} \cup GetWords \/ cmd' \notin Recognized
            \/ (cmd' = W_cd /\ argc' = 0) \/ Len(out') > 0
            \/ pc = "transfer") => cwd' = cwd]_vars
    /\ [][(pc = "prompt" /\ pc' = "prompt") =>
            /\ cwd' = cwd
            /\ UNCHANGED sessionVars
            /\ \A i \in DOMAIN genCalls' : genCalls'[i].op = "listdir_attr"]_vars
    /\ [](\A i \in DOMAIN genCalls : genCalls[i].op = "listdir_attr")

\* in /a, after a cd: the word source has listed the directory for `cd `
\* and the session is still in /a
C17_Witness ==
    /\ pc = "prompt"
    /\ cwd = Some(<<"/", "a", "/", "a">>)
    /\ docLine = <<"c", "d", SP>>
    /\ genCalls = <<ListDir("ok")>>
    /\ word_cache = DirNames(entries)


(***************************************************************************)
(* The progress display: claim C18, checked under Spec.                    *)
(***************************************************************************)
\* C18: the display is started before the transfer call and stopped right
\* after it, however the call ends (return, IOError, KeyboardInterrupt):
\* every get in the iteration's calls has progress.start before it and
\* progress.stop after it; the display runs exactly while the transfer is
\* in progress, so it does not run when the loop reads a line, tests its
\* condition, closes the session or has ended.
C18_DisplayScopedToTransfer ==
    /\ [](progressLive <=> pc = "transfer")
    /\ [](pc = "transfer" =>
            /\ calls[Len(calls)].op = "progress.start"
            /\ ~HasCall("get", "ok") /\ ~HasCall("get", "IOError")
            /\ ~HasCall("get", "KeyboardInterrupt"))
    /\ [](\A i \in DOMAIN calls :
            calls[i].op = "get" =>
                /\ i > 1 /\ calls[i - 1].op = "progress.start"
                /\ i < Len(calls) /\ calls[i + 1].op = "progress.stop")
    /\ [][pc = "transfer" =>
            /\ ~progressLive'
            /\ Len(calls') = Len(calls) + 2
            /\ calls'[Len(calls) + 1].op = "get"
            /\ calls'[Len(calls) + 1].res \in {"ok", "IOError", "KeyboardInterrupt"}
            /\ calls'[Len(calls) + 2].op = "progress.stop"
            /\ closeCalls' = closeCalls]_vars

\* an interrupted transfer: the display is stopped before close() is called
C18_Witness ==
    /\ pc = "closing"
    /\ HasCall("get", "KeyboardInterrupt")
    /\ calls[Len(calls)].op = "progress.stop"
    /\ ~progressLive
    /\ closeCalls = 0


(***************************************************************************)
(* The word source: claim C19, checked under SpecWords.                    *)
(***************************************************************************)
EntryIsDir(e) == S_ISDIR(OrZero(e.st_mode))
EntryIsReg(e) == S_ISREG(OrZero(e.st_mode))

\* a name in double quotes exactly when it contains a space
Wrapped(name) ==
    IF \E i \in DOMAIN name : name[i] = SP THEN <<DQ>> \o name \o <<DQ>> ELSE name

\* the names of the entries of q, in the order of q
NamesOf(q) == [i \in DOMAIN q |-> Wrapped(q[i].filename)]

\* C19: what get_words returns for a line: with one space-split token the
\* five command names; with two tokens, the first being cd, the names of the
\* entries that are directories; with two tokens, the first being get or
\* download, the names of the entries that are regular files; otherwise
\* nothing; names in listing order, in double quotes exactly when they
\* contain a space.
C19_WordSourceByPosition ==
    (genCalled /\ ~genFailed) =>
        word_cache =
            IF TokenCount(docLine) = 1 THEN
                << <<"q", "u", "i", "t">>, <<"l", "s">>, <<"c", "d">>,
                   <<"g", "e", "t">>, <<"d", "o", "w", "n", "l", "o", "a", "d">> >>
            ELSE IF TokenCount(docLine) = 2 /\ SplitSp(docLine)[1] = <<"c", "d">> THEN
                NamesOf(SelectSeq(entries, EntryIsDir))
            ELSE IF TokenCount(docLine) = 2
                    /\ SplitSp(docLine)[1] \in { <<"g", "e", "t">>,
                                                 <<"d", "o", "w", "n", "l", "o", "a", "d">> } THEN
                NamesOf(SelectSeq(entries, EntryIsReg))
            ELSE <<>>

\* `download ` in a directory with a regular file 'B a' and something that
\* is no regular file: the one name returned is "B a" in quotes
C19_Witness ==
    /\ genCalled /\ ~genFailed
    /\ docLine = <<"d", "o", "w", "n", "l", "o", "a", "d", SP>>
    /\ Len(entries) = 2
    /\ word_cache = << <<DQ, "B", SP, "a", DQ>> >>


(***************************************************************************)
(* The cached candidates: claim C20, checked under SpecComp.               *)
(***************************************************************************)
\* the names in double quotes or not, as the word source returns them, of
\* the entries of the directory that are regular files / directories
RegularFileNames == { RegNames(entries)[i] : i \in DOMAIN RegNames(entries) }
DirectoryNames == { DirNames(entries)[i] : i \in DOMAIN DirNames(entries) }

\* C20: after every request that ran to its end, the list the request
\* filtered is what the word source returns for the line of that request,
\* and the completions are the members of that list that contain the word
\* before the cursor; so at the second token of a cd line no regular-file
\* name is a candidate and at the second token of a get/download line no
\* directory name is.
C20_CandidatesMatchCurrentLine ==
    (invCount # -1 /\ ~genFailed) =>
        /\ word_cache = get_words(docLine, entries)
        /\ completions =
              Matching(get_words(docLine, entries), Lower(WordBeforeCursor(docLine)))
        /\ (TokenCount(docLine) = 2 /\ SplitSp(docLine)[1] = W_cd) =>
              \A i \in DOMAIN word_cache : word_cache[i] \notin RegularFileNames
        /\ (TokenCount(docLine) = 2 /\ SplitSp(docLine)[1] \in GetWords) =>
              \A i \in DOMAIN word_cache : word_cache[i] \notin DirectoryNames

====
